---- MODULE Spec2Model ----
(***************************************************************************)
(* Span buffering and export pipeline of TykTechnologies/opentelemetry.     *)
(*                                                                         *)
(* Part Q : sprocessor.MPSCQueue           (trace/sprocessor/mpsc.go)       *)
(* Part B : trace.BatchSpanProcessor        (trace/mpsc.go)                  *)
(* Part A : sprocessor.AnalyticsHandler     (trace/sprocessor/tyk_processor.go) *)
(* Part M : sprocessor.MPSCSpanProcessor    (trace/sprocessor/mpsc.go)       *)
(* Part P : config.OpenTelemetry.SetDefaults and spanProcessorFactory       *)
(*          (config/config.go, trace/span_processor.go)                     *)
(*                                                                         *)
(* Every step of a goroutine is one access to shared memory (an atomic     *)
(* load, add or compare-and-swap, a channel or mutex operation); the code  *)
(* between two such accesses only touches locals and is folded into the    *)
(* step that follows it.                                                   *)
(***************************************************************************)
EXTENDS Integers, Sequences, FiniteSets, TLC

VARIABLES
    \* ---- Part Q: sprocessor.MPSCQueue --------------------------------
    qNext,      \* Node.next of every node              (mpsc.go:17)
    qHead,      \* MPSCQueue.head                        (mpsc.go:22)
    qTail,      \* MPSCQueue.tail                        (mpsc.go:23)
    qLength,    \* MPSCQueue.length                      (mpsc.go:24)
    ePc,        \* position of each producer inside Enqueue
    eTail,      \* Enqueue's local tail, per producer
    eNext,      \* Enqueue's local next, per producer
    eCnt,       \* number of Enqueue calls each producer has completed
    dPc,        \* position of the consumer inside Dequeue
    dHead,      \* Dequeue's local head
    dTail,      \* Dequeue's local tail
    dNext,      \* Dequeue's local next
    dRes,       \* outcome of the consumer's last Dequeue call
    dSeen,      \* spans whose Enqueue had returned when the current Dequeue call began
    linked,     \* history: spans in the order of the successful CAS on tail.next
    dequeued,   \* history: values returned by the successful Dequeue calls, in order
    \* ---- Part B: trace.BatchSpanProcessor ----------------------------
    bNext,      \* spanQueueNode.next of every node      (trace/mpsc.go:16)
    bHead,      \* spanQueue.head                        (trace/mpsc.go:21)
    bTail,      \* spanQueue.tail                        (trace/mpsc.go:22)
    oPc,        \* position of each producer inside OnEnd / enqueue
    oTail,      \* enqueue's local tail, per producer
    oAddr,      \* enqueue's local tailNext (an address), per producer
    oCnt,       \* number of OnEnd calls each producer has finished
    bPanicked,  \* spans whose OnEnd call ended in a panic
    wPc,        \* position of the worker goroutine (processQueue)
    wHead,      \* dequeue's local head in the worker
    wNxt,       \* dequeue's local next in the worker
    wBatch,     \* processQueue's local batch
    wLook,      \* history: shutdownCh was closed when the worker last read the queue
    tick,       \* a tick is waiting in ticker.C
    shutdownCh, \* BatchSpanProcessor.shutdownCh: "open" or "closed"
    wg,         \* BatchSpanProcessor.wg counter
    sPc,        \* position of the goroutine calling Shutdown
    sCalls,     \* number of Shutdown calls that have returned
    sSnap,      \* history: spans in the queue or in the worker's batch when Shutdown was called
    sDownErr,   \* what the last exporter.Shutdown call returned
    sRes,       \* what the last Shutdown call returned
    fPc,        \* position of the goroutine calling ForceFlush
    fHead,      \* dequeue's local head in ForceFlush
    fNxt,       \* dequeue's local next in ForceFlush
    fBatch,     \* collectBatch's local batch
    fRes,       \* what the last ForceFlush call returned
    bExported,  \* history: the ExportSpans calls, in order
    bExpDown,   \* number of exporter.Shutdown calls
    \* ---- Part A: sprocessor.AnalyticsHandler -------------------------
    aPool,      \* AnalyticsHandler.poolSize            (tyk_processor.go:24)
    aChan,      \* the spans buffered in recordsChan     (tyk_processor.go:19)
    aClosed,    \* recordsChan has been closed
    shouldStop, \* AnalyticsHandler.shouldStop          (tyk_processor.go:21)
    mu,         \* AnalyticsHandler.mu: 0 when free, else its holder
    poolWg,     \* AnalyticsHandler.poolWg counter      (tyk_processor.go:22)
    rPc,        \* position of each producer inside OnEnd / RecordHit
    rCnt,       \* number of OnEnd calls each producer has finished
    aPanicked,  \* spans whose OnEnd call ended in a panic
    aDropped,   \* spans whose OnEnd returned at the shouldStop test
    awPc,       \* position of each recordWorker goroutine
    awBuf,      \* recordsBuffer of each recordWorker
    lPc,        \* position of the goroutine calling Shutdown / ForceFlush
    lOp,        \* the call that goroutine is in, or made last
    lCalls,     \* number of calls it has begun
    lSpawned,   \* Start's loop counter i
    aSent,      \* history: the spans sent into recordsChan
    aExported,  \* history: how many times each span was passed to ExportSpans
    aCalls,     \* history: number of ExportSpans calls made by the workers
    \* ---- Part M: sprocessor.MPSCSpanProcessor ------------------------
    mMaxSize,   \* NewMPSCSpanProcessor's maxSize argument
    mQueue,     \* MPSCSpanProcessor.queue: the spans linked and not yet dequeued
    mLength,    \* MPSCSpanProcessor.queue.length      (mpsc.go:24)
    spansNeeded,\* MPSCSpanProcessor.spansNeeded       (mpsc.go:92)
    mSignal,    \* number of signals waiting in exportSignal (mpsc.go:94)
    mpPc,       \* position of each producer inside OnEnd
    mpCnt,      \* number of OnEnd calls each producer has finished
    tPc,        \* position of the ExporterThread goroutine
    tBuf,       \* exportBatch's local buffer in ExporterThread
    tErr,       \* export's local err while the thread is inside export
    tLogged,    \* export has printed an ExportSpans error
    cPc,        \* position of the goroutine calling ForceFlush / Shutdown
    cOp,        \* the call that goroutine is in, or made last
    cCalls,     \* number of calls it has begun
    cDone,      \* number of calls that have returned
    cBuf,       \* ForceFlush's local buffer
    cRes,       \* what the last ForceFlush returned
    cQuiet,     \* history: the running call began with no OnEnd in progress and
                \* no OnEnd has begun since
    mExported,  \* history: the ExportSpans calls, in order
    mExpDown,   \* number of exporter.Shutdown calls
    \* ---- Part P: configuration and span processor factory -----------
    cfgIn,      \* the OpenTelemetry configuration as it was loaded
    cfg,        \* the configuration, after the SetDefaults calls made so far
    cfgApplied, \* number of SetDefaults calls made
    cfgOnce,    \* history: the configuration after the first SetDefaults call
    facCall     \* the last spanProcessorFactory call: its arguments and its result

qvars == <<qNext, qHead, qTail, qLength, ePc, eTail, eNext, eCnt,
           dPc, dHead, dTail, dNext, dRes, dSeen, linked, dequeued>>

bvars == <<bNext, bHead, bTail, oPc, oTail, oAddr, oCnt, bPanicked,
           wPc, wHead, wNxt, wBatch, wLook, tick, shutdownCh, wg,
           sPc, sCalls, sSnap, sDownErr, sRes, fPc, fHead, fNxt, fBatch, fRes, bExported, bExpDown>>

avars == <<aPool, aChan, aClosed, shouldStop, mu, poolWg, rPc, rCnt, aPanicked, aDropped,
           awPc, awBuf, lPc, lOp, lCalls, lSpawned, aSent, aExported, aCalls>>

mvars == <<mMaxSize, mQueue, mLength, spansNeeded, mSignal, mpPc, mpCnt,
           tPc, tBuf, tErr, tLogged, cPc, cOp, cCalls, cDone, cBuf, cRes, cQuiet, mExported, mExpDown>>

pvars == <<cfgIn, cfg, cfgApplied, cfgOnce, facCall>>

vars == <<qvars, bvars, avars, mvars, pvars>>

\* what the steps of one part leave alone: the state of the other parts
notQ == <<bvars, avars, mvars, pvars>>
notB == <<qvars, avars, mvars, pvars>>
notA == <<qvars, bvars, mvars, pvars>>
notM == <<qvars, bvars, avars, pvars>>
notP == <<qvars, bvars, avars, mvars>>

-----------------------------------------------------------------------------
(* Bounds of part Q *)

\* the producer goroutines
Producers == {1, 2}

\* Enqueue calls made by each producer, one after the other
MaxEnq == 2

\* a span is a positive integer; span (p, k) is the k-th span of producer p
SpanOf(p, k) == (p - 1) * MaxEnq + k
Spans == {SpanOf(p, k) : p \in Producers, k \in 1..MaxEnq}
ProducerOf(s) == ((s - 1) \div MaxEnq) + 1

\* the nil pointer, the dummy node, and the nil span held by the dummy node
Nil == -1
Dummy == 0
NilSpan == 0

\* one node is allocated per Enqueue; the node that carries span s is named s
Nodes == {Dummy} \cup Spans

\* Node.value: the dummy is &Node{}, whose value is the zero interface
NodeValue(n) == IF n = Dummy THEN NilSpan ELSE n

Range(f) == {f[i] : i \in DOMAIN f}

-----------------------------------------------------------------------------
(* Part Q: NewMPSCQueue *)

QInit ==
    /\ qNext = [n \in Nodes |-> Nil]
    /\ qHead = Dummy
    /\ qTail = Dummy
    /\ qLength = 0
    /\ ePc = [p \in Producers |-> "idle"]
    /\ eTail = [p \in Producers |-> Nil]
    /\ eNext = [p \in Producers |-> Nil]
    /\ eCnt = [p \in Producers |-> 0]
    /\ dPc = "idle"
    /\ dHead = Nil
    /\ dTail = Nil
    /\ dNext = Nil
    /\ dRes = "none"
    /\ dSeen = {}
    /\ linked = <<>>
    /\ dequeued = <<>>

\* the node the producer is enqueuing (newNode)
NewNode(p) == SpanOf(p, eCnt[p] + 1)

\* spans whose Enqueue call has returned
Completed == UNION {{SpanOf(p, k) : k \in 1..eCnt[p]} : p \in Producers}

-----------------------------------------------------------------------------
(* Part Q: Enqueue *)

\* mpsc.go:35-37  newNode := &Node{value}; atomic.AddInt32(&q.length, 1)
EnqBegin(p) ==
    /\ ePc[p] = "idle"
    /\ eCnt[p] < MaxEnq
    /\ qLength' = qLength + 1
    /\ ePc' = [ePc EXCEPT ![p] = "loadTail"]
    /\ UNCHANGED <<notQ, qNext, qHead, qTail, eTail, eNext, eCnt,
                   dPc, dHead, dTail, dNext, dRes, dSeen, linked, dequeued>>

\* mpsc.go:40  tail = atomic.LoadPointer(&q.tail)
EnqLoadTail(p) ==
    /\ ePc[p] = "loadTail"
    /\ eTail' = [eTail EXCEPT ![p] = qTail]
    /\ ePc' = [ePc EXCEPT ![p] = "loadNext"]
    /\ UNCHANGED <<notQ, qNext, qHead, qTail, qLength, eNext, eCnt,
                   dPc, dHead, dTail, dNext, dRes, dSeen, linked, dequeued>>

\* mpsc.go:41  next = atomic.LoadPointer(&tail.next)
EnqLoadNext(p) ==
    /\ ePc[p] = "loadNext"
    /\ eNext' = [eNext EXCEPT ![p] = qNext[eTail[p]]]
    /\ ePc' = [ePc EXCEPT ![p] = "check"]
    /\ UNCHANGED <<notQ, qNext, qHead, qTail, qLength, eTail, eCnt,
                   dPc, dHead, dTail, dNext, dRes, dSeen, linked, dequeued>>

\* mpsc.go:43  if tail == atomic.LoadPointer(&q.tail)
EnqCheck(p) ==
    /\ ePc[p] = "check"
    /\ ePc' = [ePc EXCEPT ![p] = IF eTail[p] = qTail THEN "cas" ELSE "loadTail"]
    /\ UNCHANGED <<notQ, qNext, qHead, qTail, qLength, eTail, eNext, eCnt,
                   dPc, dHead, dTail, dNext, dRes, dSeen, linked, dequeued>>

\* the link attempted without the next == nil test
EnqMayLink_unchecked(next) == TRUE

\* mpsc.go:44  the producer attempts the link only when it read next == nil
EnqMayLink(next) == next = Nil

\* the store into tail.next made whatever tail.next holds
EnqLinkSucceeds_always(cur, next) == TRUE

\* mpsc.go:44  CompareAndSwapPointer(&tail.next, next, newNode) succeeds
EnqLinkSucceeds(cur, next) == cur = next

\* a lagging tail left for the goroutine that linked the node
HelpTail_none(cur, tail, next) == cur

\* mpsc.go:48, 69  atomic.CompareAndSwapPointer(&q.tail, tail, next): the help-along step
HelpTail(cur, tail, next) == IF cur = tail THEN next ELSE cur

\* mpsc.go:44-49  link the new node after tail, or help a lagging tail forward
EnqCas(p) ==
    /\ ePc[p] = "cas"
    /\ IF EnqMayLink(eNext[p])
       THEN IF EnqLinkSucceeds(qNext[eTail[p]], eNext[p])
            THEN /\ qNext' = [qNext EXCEPT ![eTail[p]] = NewNode(p)]
                 /\ linked' = Append(linked, NodeValue(NewNode(p)))
                 /\ ePc' = [ePc EXCEPT ![p] = "swing"]
                 /\ UNCHANGED qTail
            ELSE /\ ePc' = [ePc EXCEPT ![p] = "loadTail"]
                 /\ UNCHANGED <<qNext, linked, qTail>>
       ELSE /\ qTail' = HelpTail(qTail, eTail[p], eNext[p])
            /\ ePc' = [ePc EXCEPT ![p] = "loadTail"]
            /\ UNCHANGED <<qNext, linked>>
    /\ UNCHANGED <<notQ, qHead, qLength, eTail, eNext, eCnt,
                   dPc, dHead, dTail, dNext, dRes, dSeen, dequeued>>

\* mpsc.go:45-46  CompareAndSwapPointer(&q.tail, tail, newNode); return
EnqSwing(p) ==
    /\ ePc[p] = "swing"
    /\ qTail' = IF qTail = eTail[p] THEN NewNode(p) ELSE qTail
    /\ eCnt' = [eCnt EXCEPT ![p] = eCnt[p] + 1]
    /\ ePc' = [ePc EXCEPT ![p] = "idle"]
    /\ UNCHANGED <<notQ, qNext, qHead, qLength, eTail, eNext,
                   dPc, dHead, dTail, dNext, dRes, dSeen, linked, dequeued>>

Enqueue(p) ==
    \/ EnqBegin(p)
    \/ EnqLoadTail(p)
    \/ EnqLoadNext(p)
    \/ EnqCheck(p)
    \/ EnqCas(p)
    \/ EnqSwing(p)

-----------------------------------------------------------------------------
(* Part Q: Dequeue (one consumer) *)

\* mpsc.go:59  head = atomic.LoadPointer(&q.head)       (a new call starts here)
DeqBegin ==
    /\ dPc = "idle"
    /\ dHead' = qHead
    /\ dSeen' = Completed
    /\ dRes' = "none"
    /\ dPc' = "loadTail"
    /\ UNCHANGED <<notQ, qNext, qHead, qTail, qLength, ePc, eTail, eNext, eCnt,
                   dTail, dNext, linked, dequeued>>

\* mpsc.go:59  head = atomic.LoadPointer(&q.head)       (a later iteration)
DeqLoadHead ==
    /\ dPc = "loadHead"
    /\ dHead' = qHead
    /\ dPc' = "loadTail"
    /\ UNCHANGED <<notQ, qNext, qHead, qTail, qLength, ePc, eTail, eNext, eCnt,
                   dTail, dNext, dRes, dSeen, linked, dequeued>>

\* mpsc.go:60  tail = atomic.LoadPointer(&q.tail)
DeqLoadTail ==
    /\ dPc = "loadTail"
    /\ dTail' = qTail
    /\ dPc' = "loadNext"
    /\ UNCHANGED <<notQ, qNext, qHead, qTail, qLength, ePc, eTail, eNext, eCnt,
                   dHead, dNext, dRes, dSeen, linked, dequeued>>

\* mpsc.go:61  next = atomic.LoadPointer(&head.next)
DeqLoadNext ==
    /\ dPc = "loadNext"
    /\ dNext' = qNext[dHead]
    /\ dPc' = "check"
    /\ UNCHANGED <<notQ, qNext, qHead, qTail, qLength, ePc, eTail, eNext, eCnt,
                   dHead, dTail, dRes, dSeen, linked, dequeued>>

\* mpsc.go:63  if head == atomic.LoadPointer(&q.head)
DeqCheck ==
    /\ dPc = "check"
    /\ dPc' = IF dHead = qHead THEN "act" ELSE "loadHead"
    /\ UNCHANGED <<notQ, qNext, qHead, qTail, qLength, ePc, eTail, eNext, eCnt,
                   dHead, dTail, dNext, dRes, dSeen, linked, dequeued>>

\* the payload taken from the node head leaves instead of the node it moves to
DeqValue_ofHead(head, next) == NodeValue(head)

\* mpsc.go:71  val := (*Node)(next).value
DeqValue(head, next) == NodeValue(next)

\* head left where it is
DeqNewHead_stay(head, next) == head

\* mpsc.go:72  the node head is swung to
DeqNewHead(head, next) == next

\* mpsc.go:64-75  empty, help the tail, or take the first node
\* (line 71 dereferences next: a nil next there is a nil-pointer panic)
DeqAct ==
    /\ dPc = "act"
    /\ IF dHead = dTail
       THEN IF dNext = Nil
            THEN /\ dRes' = "empty"
                 /\ dPc' = "idle"
                 /\ UNCHANGED <<qTail, qHead, dequeued>>
            ELSE /\ qTail' = HelpTail(qTail, dTail, dNext)
                 /\ dPc' = "loadHead"
                 /\ UNCHANGED <<qHead, dRes, dequeued>>
       ELSE IF dNext = Nil
            THEN /\ dPc' = "panic"
                 /\ UNCHANGED <<qTail, qHead, dRes, dequeued>>
            ELSE IF qHead = dHead
                 THEN /\ qHead' = DeqNewHead(dHead, dNext)
                      /\ dequeued' = Append(dequeued, DeqValue(dHead, dNext))
                      /\ dRes' = "ok"
                      /\ dPc' = "idle"
                      /\ UNCHANGED qTail
                 ELSE /\ dPc' = "loadHead"
                      /\ UNCHANGED <<qTail, qHead, dRes, dequeued>>
    /\ UNCHANGED <<notQ, qNext, qLength, ePc, eTail, eNext, eCnt,
                   dHead, dTail, dNext, dSeen, linked>>

Dequeue ==
    \/ DeqBegin
    \/ DeqLoadHead
    \/ DeqLoadTail
    \/ DeqLoadNext
    \/ DeqCheck
    \/ DeqAct

-----------------------------------------------------------------------------
(* Part B: trace.BatchSpanProcessor -- bounds and memory *)

\* the goroutines that call OnEnd
BProducers == {1, 2}

\* OnEnd calls made by each producer, one after the other
BMaxEnd == 2

\* NewMPSCSpanProcessor's maxBatchSize argument
BMaxBatch == 2

\* Shutdown calls made one after the other by the shutting-down goroutine
MaxShutdownCalls == 2

BSpanOf(p, k) == (p - 1) * BMaxEnd + k
BSpans == {BSpanOf(p, k) : p \in BProducers, k \in 1..BMaxEnd}
BNodes == {Dummy} \cup BSpans

\* An address is the nil address, the address of a node's next field, or the
\* address a node starts at (where its first field, span, is stored).
NilAddr == <<"nil", Nil>>
FieldNext(n) == <<"next", n>>
NodeStart(n) == <<"node", n>>

\* a non-nil word that is no node: the type word of a non-nil span interface
TypeWord == -2

\* the pointer-sized word stored at a non-nil address
BWord(addr) ==
    IF addr[1] = "next" THEN bNext[addr[2]]
    ELSE IF NodeValue(addr[2]) = NilSpan THEN Nil ELSE TypeWord

\* trace/mpsc.go:40  tailNext := (*unsafe.Pointer)(unsafe.Pointer(tail.next))
\* the VALUE of tail.next converted to an address: nil while tail has no successor
BTailNextAddr(tl) ==
    IF bNext[tl] = Nil THEN NilAddr ELSE NodeStart(bNext[tl])

\* spans linked behind node n
RECURSIVE BChain(_)
BChain(n) == IF bNext[n] = Nil THEN {} ELSE {bNext[n]} \cup BChain(bNext[n])

\* spans in the queue: linked and not yet dequeued
BQueued == BChain(bHead)

\* spans that were passed to ExportSpans
BExportedSpans == UNION {Range(bExported[i].batch) : i \in DOMAIN bExported}

bQueueVars == <<bNext, bHead, bTail>>
oVars == <<oPc, oTail, oAddr, oCnt, bPanicked>>
wVars == <<wPc, wHead, wNxt, wBatch, wLook>>
sVars == <<sPc, sCalls, sSnap, sDownErr, sRes>>
fVars == <<fPc, fHead, fNxt, fBatch, fRes>>

\* trace/mpsc.go:27-33, 73-85  newSpanQueue, NewMPSCSpanProcessor
BInit ==
    /\ bNext = [n \in BNodes |-> Nil]
    /\ bHead = Dummy
    /\ bTail = Dummy
    /\ oPc = [p \in BProducers |-> "idle"]
    /\ oTail = [p \in BProducers |-> Nil]
    /\ oAddr = [p \in BProducers |-> NilAddr]
    /\ oCnt = [p \in BProducers |-> 0]
    /\ bPanicked = {}
    /\ wPc = "select"
    /\ wHead = Nil
    /\ wNxt = Nil
    /\ wBatch = <<>>
    /\ wLook = FALSE
    /\ tick = FALSE
    /\ shutdownCh = "open"
    /\ wg = 1
    /\ sPc = "idle"
    /\ sCalls = 0
    /\ sSnap = {}
    /\ sDownErr = "none"
    /\ sRes = "none"
    /\ fPc = "idle"
    /\ fHead = Nil
    /\ fNxt = Nil
    /\ fBatch = <<>>
    /\ fRes = "none"
    /\ bExported = <<>>
    /\ bExpDown = 0

-----------------------------------------------------------------------------
(* Part B: OnEnd -> spanQueue.enqueue *)

\* the node the producer is enqueuing
BNewNode(p) == BSpanOf(p, oCnt[p] + 1)

\* trace/mpsc.go:93-94, 37-39  node := &spanQueueNode{span}; tail := q.tail.Load()
OLoadTail(p) ==
    /\ oPc[p] \in {"idle", "loadTail"}
    /\ oCnt[p] < BMaxEnd
    /\ oTail' = [oTail EXCEPT ![p] = bTail]
    /\ oPc' = [oPc EXCEPT ![p] = "readNext"]
    /\ UNCHANGED <<notB, bQueueVars, oAddr, oCnt, bPanicked, wVars, tick, shutdownCh, wg,
                   sVars, fVars, bExported, bExpDown>>

\* trace/mpsc.go:40  tailNext := (*unsafe.Pointer)(unsafe.Pointer(tail.next))
OReadNext(p) ==
    /\ oPc[p] = "readNext"
    /\ oAddr' = [oAddr EXCEPT ![p] = BTailNextAddr(oTail[p])]
    /\ oPc' = [oPc EXCEPT ![p] = "cas"]
    /\ UNCHANGED <<notB, bQueueVars, oTail, oCnt, bPanicked, wVars, tick, shutdownCh, wg,
                   sVars, fVars, bExported, bExpDown>>

\* trace/mpsc.go:41  atomic.CompareAndSwapPointer(tailNext, nil, node)
\* A nil tailNext is a nil-pointer dereference: the call panics and OnEnd
\* unwinds.  At a non-nil address the word stored there is compared with nil.
OCasTry(p) ==
    /\ IF oAddr[p] = NilAddr
       THEN /\ bPanicked' = bPanicked \cup {BNewNode(p)}
            /\ oCnt' = [oCnt EXCEPT ![p] = oCnt[p] + 1]
            /\ oPc' = [oPc EXCEPT ![p] = "idle"]
            /\ UNCHANGED bNext
       ELSE IF BWord(oAddr[p]) = Nil
            THEN IF oAddr[p][1] = "next"
                 THEN /\ bNext' = [bNext EXCEPT ![oAddr[p][2]] = BNewNode(p)]
                      /\ oPc' = [oPc EXCEPT ![p] = "swing"]
                      /\ UNCHANGED <<bPanicked, oCnt>>
                 ELSE /\ oPc' = [oPc EXCEPT ![p] = "corrupt"]
                      /\ UNCHANGED <<bNext, bPanicked, oCnt>>
            ELSE /\ oPc' = [oPc EXCEPT ![p] = "help"]
                 /\ UNCHANGED <<bNext, bPanicked, oCnt>>
    /\ UNCHANGED bTail

\* trace/mpsc.go:42-43  q.tail.CompareAndSwap(tail, node); return
OSwing(p) ==
    /\ bTail' = IF bTail = oTail[p] THEN BNewNode(p) ELSE bTail
    /\ oCnt' = [oCnt EXCEPT ![p] = oCnt[p] + 1]
    /\ oPc' = [oPc EXCEPT ![p] = "idle"]
    /\ UNCHANGED <<bNext, bPanicked>>

\* trace/mpsc.go:45  q.tail.CompareAndSwap(tail, tail.next), then the next iteration
OHelp(p) ==
    /\ bTail' = IF bTail = oTail[p] THEN bNext[oTail[p]] ELSE bTail
    /\ oPc' = [oPc EXCEPT ![p] = "loadTail"]
    /\ UNCHANGED <<bNext, bPanicked, oCnt>>

\* trace/mpsc.go:41-45  the compare-and-swap and the step that follows it
OCas(p) ==
    /\ oPc[p] \in {"cas", "swing", "help"}
    /\ CASE oPc[p] = "cas" -> OCasTry(p)
         [] oPc[p] = "swing" -> OSwing(p)
         [] oPc[p] = "help" -> OHelp(p)
    /\ UNCHANGED <<notB, bHead, oTail, oAddr, wVars, tick, shutdownCh, wg,
                   sVars, fVars, bExported, bExpDown>>

\* trace/mpsc.go:93-95  OnEnd
BOnEnd(p) ==
    \/ OLoadTail(p)
    \/ OReadNext(p)
    \/ OCas(p)

-----------------------------------------------------------------------------
(* Part B: the worker goroutine, processQueue *)

\* the exporter's answer to an ExportSpans call: an error or nil
ExportOutcomes == {"nil", "error"}

\* trace/mpsc.go:158-160  exportBatch: ExportSpans(ctx, batch), the error dropped
BWorkerExport(batch, out) ==
    Append(bExported, [by |-> "worker", batch |-> batch, out |-> out])

\* trace/mpsc.go:135  the size trigger
BBatchFull(batch) == Len(batch) >= BMaxBatch

\* trace/mpsc.go:124-126  case <-bsp.shutdownCh: return   (deferred wg.Done)
WShutdown ==
    /\ wPc = "select"
    /\ shutdownCh = "closed"
    /\ wPc' = "exited"
    /\ wg' = wg - 1
    /\ UNCHANGED <<notB, bQueueVars, oVars, wHead, wNxt, wBatch, wLook, tick, shutdownCh,
                   sVars, fVars, bExported, bExpDown>>

\* trace/mpsc.go:127-131  case <-ticker.C: export a non-empty batch
WTick ==
    /\ wPc = "select"
    /\ tick
    /\ tick' = FALSE
    /\ IF Len(wBatch) > 0
       THEN /\ \E out \in ExportOutcomes : bExported' = BWorkerExport(wBatch, out)
            /\ wBatch' = <<>>
       ELSE UNCHANGED <<bExported, wBatch>>
    /\ UNCHANGED <<notB, bQueueVars, oVars, wPc, wHead, wNxt, wLook, shutdownCh, wg,
                   sVars, fVars, bExpDown>>

\* trace/mpsc.go:132-133, 52  default: taken when no case is ready; head := q.head.Load()
WDefault ==
    /\ wPc = "select"
    /\ shutdownCh = "open"
    /\ ~tick
    /\ wHead' = bHead
    /\ wPc' = "deqNext"
    /\ UNCHANGED <<notB, bQueueVars, oVars, wNxt, wBatch, wLook, tick, shutdownCh, wg,
                   sVars, fVars, bExported, bExpDown>>

\* trace/mpsc.go:52  head := q.head.Load()      (after a failed CAS)
WDeqLoad ==
    /\ wHead' = bHead
    /\ wPc' = "deqNext"
    /\ UNCHANGED <<bHead, wNxt, wBatch, wLook, bExported>>

\* trace/mpsc.go:53-56  next := head.next; if next == nil { return nil, false }
WDeqNext ==
    /\ wNxt' = bNext[wHead]
    /\ wLook' = (shutdownCh = "closed")
    /\ wPc' = IF bNext[wHead] = Nil THEN "select" ELSE "deqCas"
    /\ UNCHANGED <<bHead, wHead, wBatch, bExported>>

\* trace/mpsc.go:57-58, 133-138  the CAS on head; on success the span is
\* appended to the batch and a full batch is exported
WDeqCas ==
    /\ IF bHead = wHead
       THEN /\ bHead' = wNxt
            /\ IF BBatchFull(Append(wBatch, NodeValue(wNxt)))
               THEN /\ \E out \in ExportOutcomes :
                         bExported' = BWorkerExport(Append(wBatch, NodeValue(wNxt)), out)
                    /\ wBatch' = <<>>
               ELSE /\ wBatch' = Append(wBatch, NodeValue(wNxt))
                    /\ UNCHANGED bExported
            /\ wPc' = "select"
       ELSE /\ wPc' = "deqLoad"
            /\ UNCHANGED <<bHead, wBatch, bExported>>
    /\ UNCHANGED <<wHead, wNxt, wLook>>

\* trace/mpsc.go:50-61, 133-139  the worker inside dequeue
WDequeue ==
    /\ wPc \in {"deqLoad", "deqNext", "deqCas"}
    /\ CASE wPc = "deqLoad" -> WDeqLoad
         [] wPc = "deqNext" -> WDeqNext
         [] wPc = "deqCas" -> WDeqCas
    /\ UNCHANGED <<notB, bNext, bTail, oVars, tick, shutdownCh, wg, sVars, fVars, bExpDown>>

\* trace/mpsc.go:118  the ticker puts a tick into ticker.C (capacity 1)
BTick ==
    /\ ~tick
    /\ wPc # "exited"
    /\ tick' = TRUE
    /\ UNCHANGED <<notB, bQueueVars, oVars, wVars, shutdownCh, wg, sVars, fVars,
                   bExported, bExpDown>>

\* trace/mpsc.go:115-142  processQueue
BWorker ==
    \/ WShutdown
    \/ WTick
    \/ WDefault
    \/ WDequeue
    \/ BTick

-----------------------------------------------------------------------------
(* Part B: Shutdown and ForceFlush *)

\* trace/mpsc.go:99  close(bsp.shutdownCh); closing a closed channel panics
SClose ==
    /\ sPc = "idle"
    /\ sCalls < MaxShutdownCalls
    /\ sSnap' = IF sCalls = 0 THEN BQueued \cup Range(wBatch) ELSE sSnap
    /\ IF shutdownCh = "closed"
       THEN /\ sPc' = "panicked"
            /\ UNCHANGED shutdownCh
       ELSE /\ shutdownCh' = "closed"
            /\ sPc' = "wait"
    /\ UNCHANGED <<notB, bQueueVars, oVars, wVars, tick, wg, sCalls, sDownErr, sRes, fVars,
                   bExported, bExpDown>>

\* trace/mpsc.go:100  bsp.wg.Wait()
SWait ==
    /\ sPc = "wait"
    /\ wg = 0
    /\ sPc' = "expShutdown"
    /\ UNCHANGED <<notB, bQueueVars, oVars, wVars, tick, shutdownCh, wg, sCalls, sSnap,
                   sDownErr, sRes,
                   fVars, bExported, bExpDown>>

\* the exporter's error swallowed
BShutdownResult_nil(err) == "nil"

\* trace/mpsc.go:102  Shutdown returns what exporter.Shutdown returned
BShutdownResult(err) == err

\* trace/mpsc.go:102  return bsp.exporter.Shutdown(ctx)
SExpShutdown ==
    /\ sPc = "expShutdown"
    /\ bExpDown' = bExpDown + 1
    /\ \E err \in ExportOutcomes :
          /\ sDownErr' = err
          /\ sRes' = BShutdownResult(err)
    /\ sCalls' = sCalls + 1
    /\ sPc' = "idle"
    /\ UNCHANGED <<notB, bQueueVars, oVars, wVars, tick, shutdownCh, wg, sSnap,
                   fVars, bExported>>

\* trace/mpsc.go:98-103  Shutdown
BShutdown ==
    \/ SClose
    \/ SWait
    \/ SExpShutdown

\* trace/mpsc.go:107, 146-148, 52  batch = nil; head := q.head.Load()
FBegin ==
    /\ fPc = "idle"
    /\ fBatch' = <<>>
    /\ fRes' = "none"
    /\ fHead' = bHead
    /\ fPc' = "deqNext"
    /\ UNCHANGED <<notB, bQueueVars, oVars, wVars, tick, shutdownCh, wg, sVars,
                   fNxt, bExported, bExpDown>>

\* trace/mpsc.go:52  head := q.head.Load()      (a later iteration)
FDeqLoad ==
    /\ fHead' = bHead
    /\ fPc' = "deqNext"
    /\ UNCHANGED <<bHead, fNxt, fBatch, fRes, bExported>>

\* trace/mpsc.go:109  return bsp.exporter.ExportSpans(ctx, batch)
BFlushResult(out) == out

\* trace/mpsc.go:53-56, 150-154, 108-111  next := head.next; on nil collectBatch
\* returns and ForceFlush exports a non-empty batch, returning the exporter's answer
FDeqNext ==
    /\ fNxt' = bNext[fHead]
    /\ IF bNext[fHead] = Nil
       THEN /\ fPc' = "idle"
            /\ IF Len(fBatch) > 0
               THEN \E out \in ExportOutcomes :
                       /\ bExported' = Append(bExported,
                                              [by |-> "flush", batch |-> fBatch, out |-> out])
                       /\ fRes' = BFlushResult(out)
               ELSE /\ fRes' = "nil"
                    /\ UNCHANGED bExported
       ELSE /\ fPc' = "deqCas"
            /\ UNCHANGED <<fRes, bExported>>
    /\ UNCHANGED <<bHead, fHead, fBatch>>

\* trace/mpsc.go:57-58, 148-149  the CAS on head; on success the span joins the batch
FDeqCas ==
    /\ IF bHead = fHead
       THEN /\ bHead' = fNxt
            /\ fBatch' = Append(fBatch, NodeValue(fNxt))
       ELSE UNCHANGED <<bHead, fBatch>>
    /\ fPc' = "deqLoad"
    /\ UNCHANGED <<fHead, fNxt, fRes, bExported>>

\* trace/mpsc.go:145-155  collectBatch inside dequeue
FDequeue ==
    /\ fPc \in {"deqLoad", "deqNext", "deqCas"}
    /\ CASE fPc = "deqLoad" -> FDeqLoad
         [] fPc = "deqNext" -> FDeqNext
         [] fPc = "deqCas" -> FDeqCas
    /\ UNCHANGED <<notB, bNext, bTail, oVars, wVars, tick, shutdownCh, wg, sVars, bExpDown>>

\* trace/mpsc.go:105-112  ForceFlush
BForceFlush ==
    \/ FBegin
    \/ FDequeue

-----------------------------------------------------------------------------
(* Part A: sprocessor.AnalyticsHandler -- bounds *)

\* the goroutines that call OnEnd
AProducers == {1, 2}

\* OnEnd calls made by each producer, one after the other
AMaxEnd == 2

\* recordsBufferSize, the capacity of recordsChan (1000 in the source, scaled down)
RecordsBufferSize == 2

\* the values runtime.NumCPU() takes
PoolSizes == {1, 2}

\* calls of Shutdown or ForceFlush made one after the other
AMaxCalls == 2

ASpanOf(p, k) == (p - 1) * AMaxEnd + k
ASpans == {ASpanOf(p, k) : p \in AProducers, k \in 1..AMaxEnd}

\* the recordWorker goroutines of one Start
AWorkers == 1..aPool

\* the names a recordWorker can have
WorkerIds == UNION {1..n : n \in PoolSizes}

\* the holder of mu when it is the goroutine calling Shutdown
Lifecycle == 99

\* tyk_processor.go:41  r.workerBufferSize = recordsBufferSize / uint64(r.poolSize)
WorkerBufferSize == RecordsBufferSize \div aPool

\* number of times span s occurs in a batch
ACountIn(s, batch) == Cardinality({i \in DOMAIN batch : batch[i] = s})

\* spans that were passed to ExportSpans
AExportedSpans == {s \in ASpans : aExported[s] > 0}

rVars == <<rPc, rCnt, aPanicked, aDropped>>
awVars == <<awPc, awBuf>>
lVars == <<lPc, lOp, lCalls, lSpawned>>

\* tyk_processor.go:33-56  NewAnalyticsHandler, Start: the channel is open and
\* empty, shouldStop is 0 and poolSize workers wait in their select
AInit ==
    /\ aPool \in PoolSizes
    /\ aChan = <<>>
    /\ aClosed = FALSE
    /\ shouldStop = 0
    /\ mu = 0
    /\ poolWg = aPool
    /\ rPc = [p \in AProducers |-> "idle"]
    /\ rCnt = [p \in AProducers |-> 0]
    /\ aPanicked = {}
    /\ aDropped = {}
    /\ awPc = [w \in AWorkers |-> "select"]
    /\ awBuf = [w \in AWorkers |-> <<>>]
    /\ lPc = "idle"
    /\ lOp = "none"
    /\ lCalls = 0
    /\ lSpawned = 0
    /\ aSent = {}
    /\ aExported = [s \in ASpans |-> 0]
    /\ aCalls = 0

-----------------------------------------------------------------------------
(* Part A: OnEnd -> RecordHit *)

\* the span the producer is recording
ASpan(p) == ASpanOf(p, rCnt[p] + 1)

\* the stop flag not looked at
AStopRequested_ignored(flag) == FALSE

\* tyk_processor.go:83  atomic.LoadUint32(&r.shouldStop) > 0
AStopRequested(flag) == flag > 0

\* tyk_processor.go:83-85  if atomic.LoadUint32(&r.shouldStop) > 0 { return nil }
RCheck(p) ==
    /\ rPc[p] = "idle"
    /\ rCnt[p] < AMaxEnd
    /\ IF AStopRequested(shouldStop)
       THEN /\ aDropped' = aDropped \cup {ASpan(p)}
            /\ rCnt' = [rCnt EXCEPT ![p] = rCnt[p] + 1]
            /\ UNCHANGED rPc
       ELSE /\ rPc' = [rPc EXCEPT ![p] = "lock"]
            /\ UNCHANGED <<aDropped, rCnt>>
    /\ UNCHANGED <<notA, aPool, aChan, aClosed, shouldStop, mu, poolWg, aPanicked,
                   awVars, lVars, aSent, aExported, aCalls>>

\* tyk_processor.go:89  r.mu.Lock()
RLock(p) ==
    /\ rPc[p] = "lock"
    /\ mu = 0
    /\ mu' = p
    /\ rPc' = [rPc EXCEPT ![p] = "send"]
    /\ UNCHANGED <<notA, aPool, aChan, aClosed, shouldStop, poolWg, rCnt, aPanicked, aDropped,
                   awVars, lVars, aSent, aExported, aCalls>>

\* tyk_processor.go:90  r.recordsChan <- &span
\* a send on a closed channel panics (mu stays locked: the unlock is not deferred);
\* a send on a full channel waits for a receiver
RSend(p) ==
    /\ rPc[p] = "send"
    /\ aClosed \/ Len(aChan) < RecordsBufferSize
    /\ IF aClosed
       THEN /\ aPanicked' = aPanicked \cup {ASpan(p)}
            /\ rCnt' = [rCnt EXCEPT ![p] = rCnt[p] + 1]
            /\ rPc' = [rPc EXCEPT ![p] = "idle"]
            /\ UNCHANGED <<aChan, aSent>>
       ELSE /\ aChan' = Append(aChan, ASpan(p))
            /\ aSent' = aSent \cup {ASpan(p)}
            /\ rPc' = [rPc EXCEPT ![p] = "unlock"]
            /\ UNCHANGED <<aPanicked, rCnt>>
    /\ UNCHANGED <<notA, aPool, aClosed, shouldStop, mu, poolWg, aDropped,
                   awVars, lVars, aExported, aCalls>>

\* tyk_processor.go:91-93  r.mu.Unlock(); return nil
RUnlock(p) ==
    /\ rPc[p] = "unlock"
    /\ mu' = 0
    /\ rCnt' = [rCnt EXCEPT ![p] = rCnt[p] + 1]
    /\ rPc' = [rPc EXCEPT ![p] = "idle"]
    /\ UNCHANGED <<notA, aPool, aChan, aClosed, shouldStop, poolWg, aPanicked, aDropped,
                   awVars, lVars, aSent, aExported, aCalls>>

\* tyk_processor.go:81-94, 146-148  OnEnd, RecordHit
AOnEnd(p) ==
    \/ RCheck(p)
    \/ RLock(p)
    \/ RSend(p)
    \/ RUnlock(p)

-----------------------------------------------------------------------------
(* Part A: recordWorker *)

\* r.exporter.ExportSpans(ctx, batch) is called (its error is dropped)
AExportCall(batch) ==
    [s \in ASpans |-> aExported[s] + ACountIn(s, batch)]

\* the buffer counted as ready only once it has outgrown workerBufferSize
AReadyToSend_late(buf) == Len(buf) > WorkerBufferSize

\* tyk_processor.go:130  readyToSend = uint64(len(recordsBuffer)) == r.workerBufferSize
AReadyToSend(buf) == Len(buf) = WorkerBufferSize

\* the buffer sent on every trigger, also when it holds nothing
ASendNow_evenEmpty(buf, ready, stale) == ready \/ stale

\* the buffer sent only when it is full: neither the flush timer nor the
\* age of the last export counts
ASendNow_sizeOnly(buf, ready, stale) == Len(buf) > 0 /\ Len(buf) = WorkerBufferSize

\* tyk_processor.go:138  len(recordsBuffer) > 0 && (readyToSend || time.Since(lastSentTs) >= 1s)
ASendNow(buf, ready, stale) == Len(buf) > 0 /\ (ready \/ stale)

\* a worker that exits without sending what is left in its buffer
AFinalBatch_none(buf) == <<>>

\* tyk_processor.go:121  the batch of the last ExportSpans call: what is left in the buffer
AFinalBatch(buf) == buf

\* the record put in front of the buffer
ABufAppend_front(buf, rec) == <<rec>> \o buf

\* tyk_processor.go:127  recordsBuffer = append(recordsBuffer, *record)
ABufAppend(buf, rec) == Append(buf, rec)

\* tyk_processor.go:112-130, 138-139  a record is received and appended; the
\* buffer is exported when it is full or the last export is a second old
AWRecv(w) ==
    /\ w \in AWorkers
    /\ awPc[w] = "select"
    /\ aChan # <<>>
    /\ aChan' = Tail(aChan)
    /\ awBuf' = [awBuf EXCEPT ![w] = ABufAppend(awBuf[w], Head(aChan))]
    /\ \E stale \in BOOLEAN :
          IF ASendNow(awBuf'[w], AReadyToSend(awBuf'[w]), stale)
          THEN /\ aExported' = AExportCall(awBuf'[w])
               /\ aCalls' = aCalls + 1
               /\ awPc' = [awPc EXCEPT ![w] = "export"]
          ELSE UNCHANGED <<aExported, aCalls, awPc>>
    /\ UNCHANGED <<notA, aPool, aClosed, shouldStop, mu, poolWg, rVars, lVars, aSent>>

\* tyk_processor.go:131-139  the flush timer fires: readyToSend = true
AWTimer(w) ==
    /\ w \in AWorkers
    /\ awPc[w] = "select"
    /\ IF ASendNow(awBuf[w], TRUE, FALSE)
       THEN /\ aExported' = AExportCall(awBuf[w])
            /\ aCalls' = aCalls + 1
            /\ awPc' = [awPc EXCEPT ![w] = "export"]
       ELSE UNCHANGED <<aExported, aCalls, awPc>>
    /\ UNCHANGED <<notA, aPool, aChan, aClosed, shouldStop, mu, poolWg, rVars, awBuf,
                   lVars, aSent>>

\* tyk_processor.go:139-141  ExportSpans returns; recordsBuffer = recordsBuffer[:0]
AWExportRet(w) ==
    /\ w \in AWorkers
    /\ awPc[w] = "export"
    /\ awBuf' = [awBuf EXCEPT ![w] = <<>>]
    /\ awPc' = [awPc EXCEPT ![w] = "select"]
    /\ UNCHANGED <<notA, aPool, aChan, aClosed, shouldStop, mu, poolWg, rVars,
                   lVars, aSent, aExported, aCalls>>

\* tyk_processor.go:112, 119-121  the channel is closed and empty: send what is left
AWClosed(w) ==
    /\ w \in AWorkers
    /\ awPc[w] = "select"
    /\ aClosed
    /\ aChan = <<>>
    /\ aExported' = AExportCall(AFinalBatch(awBuf[w]))
    /\ aCalls' = aCalls + 1
    /\ awPc' = [awPc EXCEPT ![w] = "finalExport"]
    /\ UNCHANGED <<notA, aPool, aChan, aClosed, shouldStop, mu, poolWg, rVars, awBuf,
                   lVars, aSent>>

\* tyk_processor.go:121-122, 97  the last ExportSpans returns; return (deferred poolWg.Done)
AWExit(w) ==
    /\ w \in AWorkers
    /\ awPc[w] = "finalExport"
    /\ awPc' = [awPc EXCEPT ![w] = "exited"]
    /\ poolWg' = poolWg - 1
    /\ UNCHANGED <<notA, aPool, aChan, aClosed, shouldStop, mu, rVars, awBuf,
                   lVars, aSent, aExported, aCalls>>

\* tyk_processor.go:96-144  recordWorker
AWorker(w) ==
    \/ AWRecv(w)
    \/ AWTimer(w)
    \/ AWExportRet(w)
    \/ AWClosed(w)
    \/ AWExit(w)

-----------------------------------------------------------------------------
(* Part A: Shutdown, ForceFlush, Start *)

\* tyk_processor.go:59-61, 74-75  Shutdown or ForceFlush is called:
\* atomic.SwapUint32(&r.shouldStop, 1)
LBegin ==
    /\ lPc = "idle"
    /\ lCalls < AMaxCalls
    /\ lOp' \in {"shutdown", "flush"}
    /\ lCalls' = lCalls + 1
    /\ shouldStop' = 1
    /\ lPc' = "lock"
    /\ UNCHANGED <<notA, aPool, aChan, aClosed, mu, poolWg, rVars, awVars, lSpawned,
                   aSent, aExported, aCalls>>

\* tyk_processor.go:64  r.mu.Lock()
LLock ==
    /\ lPc = "lock"
    /\ mu = 0
    /\ mu' = Lifecycle
    /\ lPc' = "close"
    /\ UNCHANGED <<notA, aPool, aChan, aClosed, shouldStop, poolWg, rVars, awVars,
                   lOp, lCalls, lSpawned, aSent, aExported, aCalls>>

\* tyk_processor.go:65  close(r.recordsChan); closing a closed channel panics
LClose ==
    /\ lPc = "close"
    /\ IF aClosed
       THEN /\ lPc' = "panicked"
            /\ UNCHANGED aClosed
       ELSE /\ aClosed' = TRUE
            /\ lPc' = "unlock"
    /\ UNCHANGED <<notA, aPool, aChan, shouldStop, mu, poolWg, rVars, awVars,
                   lOp, lCalls, lSpawned, aSent, aExported, aCalls>>

\* tyk_processor.go:66  r.mu.Unlock()
LUnlock ==
    /\ lPc = "unlock"
    /\ mu' = 0
    /\ lPc' = "wait"
    /\ UNCHANGED <<notA, aPool, aChan, aClosed, shouldStop, poolWg, rVars, awVars,
                   lOp, lCalls, lSpawned, aSent, aExported, aCalls>>

\* tyk_processor.go:69-70, 75-77  r.poolWg.Wait(); Shutdown returns, ForceFlush goes on to Start
LWait ==
    /\ lPc = "wait"
    /\ poolWg = 0
    /\ lPc' = IF lOp = "shutdown" THEN "idle" ELSE "startChan"
    /\ UNCHANGED <<notA, aPool, aChan, aClosed, shouldStop, mu, poolWg, rVars, awVars,
                   lOp, lCalls, lSpawned, aSent, aExported, aCalls>>

\* tyk_processor.go:50  r.recordsChan = make(chan *sdktrace.ReadOnlySpan, recordsBufferSize)
LStartChan ==
    /\ lPc = "startChan"
    /\ aChan' = <<>>
    /\ aClosed' = FALSE
    /\ lPc' = "startSwap"
    /\ UNCHANGED <<notA, aPool, shouldStop, mu, poolWg, rVars, awVars,
                   lOp, lCalls, lSpawned, aSent, aExported, aCalls>>

\* tyk_processor.go:51  atomic.SwapUint32(&r.shouldStop, 0)
LStartSwap ==
    /\ lPc = "startSwap"
    /\ shouldStop' = 0
    /\ lSpawned' = 0
    /\ lPc' = "spawn"
    /\ UNCHANGED <<notA, aPool, aChan, aClosed, mu, poolWg, rVars, awVars,
                   lOp, lCalls, aSent, aExported, aCalls>>

\* the loop left after its first round
ASpawnMore_once(i, pool) == FALSE

\* tyk_processor.go:52  i < r.poolSize
ASpawnMore(i, pool) == i < pool

\* tyk_processor.go:52-55, 78  r.poolWg.Add(1); go r.recordWorker(); after the
\* last worker ForceFlush returns
LSpawn ==
    /\ lPc = "spawn"
    /\ poolWg' = poolWg + 1
    /\ awPc' = [awPc EXCEPT ![lSpawned + 1] = "select"]
    /\ awBuf' = [awBuf EXCEPT ![lSpawned + 1] = <<>>]
    /\ lSpawned' = lSpawned + 1
    /\ lPc' = IF ASpawnMore(lSpawned + 1, aPool) THEN "spawn" ELSE "idle"
    /\ UNCHANGED <<notA, aPool, aChan, aClosed, shouldStop, mu, rVars,
                   lOp, lCalls, aSent, aExported, aCalls>>

\* tyk_processor.go:48-79  Shutdown, ForceFlush, Start
ALifecycle ==
    \/ LBegin
    \/ LLock
    \/ LClose
    \/ LUnlock
    \/ LWait
    \/ LStartChan
    \/ LStartSwap
    \/ LSpawn

-----------------------------------------------------------------------------
(* Part M: sprocessor.MPSCSpanProcessor -- bounds *)
(* Enqueue and Dequeue act on the queue at their linearization points, the  *)
(* successful CAS on tail.next and on head (part Q): mQueue is the chain of *)
(* nodes behind head.  The length counter is a separate atomic access.      *)

\* the goroutines that call OnEnd
MProducers == {1, 2}

\* OnEnd calls made by each producer, one after the other
MMaxEnd == 2

\* the values of NewMPSCSpanProcessor's maxSize argument
MaxSizes == {1, 2}

\* NewMPSCSpanProcessor's waitTime argument
WaitTime == 1

\* the capacity of exportSignal (2048 in the source, scaled down)
ExportSignalCap == 2

\* calls of ForceFlush or Shutdown made one after the other
MMaxCalls == 2

MSpanOf(p, k) == (p - 1) * MMaxEnd + k
MSpans == {MSpanOf(p, k) : p \in MProducers, k \in 1..MMaxEnd}

\* mpsc.go:111  ExporterThread runs on context.Background(), which is never done
CtxDone == FALSE

\* spans passed to ExportSpans, and how often
MExportedSpans == UNION {Range(mExported[i].batch) : i \in DOMAIN mExported}
MExportCount(s) ==
    Cardinality({<<i, j>> \in (DOMAIN mExported) \X (1..Cardinality(MSpans)) :
                    j \in DOMAIN mExported[i].batch /\ mExported[i].batch[j] = s})

mpVars == <<mpPc, mpCnt>>
tVars == <<tPc, tBuf, tErr, tLogged>>
cVars == <<cPc, cOp, cCalls, cDone, cBuf, cRes, cQuiet>>

\* mpsc.go:28-31, 102-114  NewMPSCQueue, NewMPSCSpanProcessor
MInit ==
    /\ mMaxSize \in MaxSizes
    /\ mQueue = <<>>
    /\ mLength = 0
    /\ spansNeeded = mMaxSize
    /\ mSignal = 0
    /\ mpPc = [p \in MProducers |-> "idle"]
    /\ mpCnt = [p \in MProducers |-> 0]
    /\ tPc = "wait"
    /\ tBuf = <<>>
    /\ tErr = "none"
    /\ tLogged = FALSE
    /\ cPc = "idle"
    /\ cOp = "none"
    /\ cCalls = 0
    /\ cDone = 0
    /\ cBuf = <<>>
    /\ cRes = "none"
    /\ cQuiet = FALSE
    /\ mExported = <<>>
    /\ mExpDown = 0

\* mpsc.go:81-83  Length
MLength == mLength

\* emptiness read off the list instead of the counter
MIsEmpty_actual == mQueue = <<>>

\* mpsc.go:86-88  IsEmpty
MIsEmpty == mLength = 0

\* mpsc.go:55-78  Dequeue returns (span, true) when the queue holds a span
MDequeueOk == mQueue # <<>>

-----------------------------------------------------------------------------
(* Part M: OnEnd *)

MSpan(p) == MSpanOf(p, mpCnt[p] + 1)

\* mpsc.go:117, 35-37  bsp.queue.Enqueue(s): atomic.AddInt32(&q.length, 1)
MEnqBegin(p) ==
    /\ mpPc[p] = "idle"
    /\ mpCnt[p] < MMaxEnd
    /\ mLength' = mLength + 1
    /\ mpPc' = [mpPc EXCEPT ![p] = "link"]
    /\ cQuiet' = FALSE
    /\ UNCHANGED <<notM, mMaxSize, mQueue, spansNeeded, mSignal, mpCnt,
                   tVars, cPc, cOp, cCalls, cDone, cBuf, cRes, mExported, mExpDown>>

\* mpsc.go:39-51  the node is linked behind the tail
MEnqLink(p) ==
    /\ mpPc[p] = "link"
    /\ mQueue' = Append(mQueue, MSpan(p))
    /\ mpPc' = [mpPc EXCEPT ![p] = "signal"]
    /\ UNCHANGED <<notM, mMaxSize, mLength, spansNeeded, mSignal, mpCnt,
                   tVars, cVars, mExported, mExpDown>>

\* the size trigger taken only once the length has passed spansNeeded
MShouldSignal_late(len, needed) == len > needed

\* mpsc.go:119  the size trigger
MShouldSignal(len, needed) == len >= needed

\* a plain send on exportSignal, which waits while the channel is full
MSignalProceeds_blocking(should, sig) == ~should \/ sig < ExportSignalCap

\* mpsc.go:120-123  select { case bsp.exportSignal <- struct{}{}: default: }
\* the default case is taken when the send cannot proceed: the select never waits
MSignalProceeds(should, sig) == TRUE

\* mpsc.go:119-125  if length >= spansNeeded: send on exportSignal unless it is full
MSignal(p) ==
    /\ mpPc[p] = "signal"
    /\ MSignalProceeds(MShouldSignal(MLength, spansNeeded), mSignal)
    /\ mSignal' = IF MShouldSignal(MLength, spansNeeded) /\ mSignal < ExportSignalCap
                  THEN mSignal + 1 ELSE mSignal
    /\ mpCnt' = [mpCnt EXCEPT ![p] = mpCnt[p] + 1]
    /\ mpPc' = [mpPc EXCEPT ![p] = "idle"]
    /\ UNCHANGED <<notM, mMaxSize, mQueue, mLength, spansNeeded,
                   tVars, cVars, mExported, mExpDown>>

\* mpsc.go:116-125  OnEnd
MOnEnd(p) ==
    \/ MEnqBegin(p)
    \/ MEnqLink(p)
    \/ MSignal(p)

-----------------------------------------------------------------------------
(* Part M: ExporterThread and exportBatch(false) *)

\* an ExportSpans call; down records whether exporter.Shutdown was called before it
MExportCall(who, batch) ==
    Append(mExported, [by |-> who, batch |-> batch, down |-> mExpDown > 0])

\* mpsc.go:140, 172  the loop test: !IsEmpty() && len(buffer) < spansNeeded
MLoopCond(buf) == ~MIsEmpty /\ Len(buf) < spansNeeded

\* mpsc.go:128-133, 139  select: ctx.Done() or a signal; buffer := make(...)
TSelect ==
    /\ tPc = "wait"
    /\ CtxDone \/ mSignal > 0
    /\ IF CtxDone
       THEN /\ tPc' = "exited"
            /\ UNCHANGED <<mSignal, tBuf>>
       ELSE /\ mSignal' = mSignal - 1
            /\ tBuf' = <<>>
            /\ tPc' = "cond"
    /\ UNCHANGED <<notM, mMaxSize, mQueue, mLength, spansNeeded, mpVars, tErr, tLogged, cVars,
                   mExported, mExpDown>>

\* mpsc.go:140  for !bsp.queue.IsEmpty() && len(buffer) < int(bsp.spansNeeded)
TCond ==
    /\ tPc = "cond"
    /\ tPc' = IF MLoopCond(tBuf) THEN "deq" ELSE "decide"
    /\ UNCHANGED <<notM, mMaxSize, mQueue, mLength, spansNeeded, mSignal, mpVars, tBuf, tErr,
                   tLogged, cVars, mExported, mExpDown>>

\* mpsc.go:141-143  if span, ok := bsp.queue.Dequeue(); ok { buffer = append(buffer, span) }
TDeq ==
    /\ tPc = "deq"
    /\ IF MDequeueOk
       THEN /\ tBuf' = Append(tBuf, Head(mQueue))
            /\ mQueue' = Tail(mQueue)
       ELSE UNCHANGED <<tBuf, mQueue>>
    /\ tPc' = "cond"
    /\ UNCHANGED <<notM, mMaxSize, mLength, spansNeeded, mSignal, mpVars, tErr, tLogged, cVars,
                   mExported, mExpDown>>

\* mpsc.go:146-147, 157  if len(buffer) >= spansNeeded || force { bsp.export(buffer) }:
\* err := bsp.exporter.ExportSpans(context.Background(), spans)
TDecide ==
    /\ tPc = "decide"
    /\ IF Len(tBuf) >= spansNeeded
       THEN /\ mExported' = MExportCall("thread", tBuf)
            /\ \E out \in ExportOutcomes : tErr' = out
            /\ tPc' = "exported"
       ELSE /\ tPc' = "tune"
            /\ UNCHANGED <<mExported, tErr>>
    /\ UNCHANGED <<notM, mMaxSize, mQueue, mLength, spansNeeded, mSignal, mpVars, tBuf, tLogged,
                   cVars, mExpDown>>

\* the buffer kept for another try when the export failed
TAfterExport_retry(buf, err) == IF err = "error" THEN buf ELSE <<>>

\* mpsc.go:148  buffer = buffer[:0], whatever ExportSpans returned
TAfterExport(buf, err) == <<>>

\* mpsc.go:158-160, 148  export prints a non-nil err and returns; the buffer is emptied
TExported ==
    /\ tPc = "exported"
    /\ tBuf' = TAfterExport(tBuf, tErr)
    /\ tErr' = "none"
    /\ tLogged' = (tLogged \/ tErr = "error")
    /\ tPc' = "tune"
    /\ UNCHANGED <<notM, mMaxSize, mQueue, mLength, spansNeeded, mSignal, mpVars, cVars,
                   mExported, mExpDown>>

\* mpsc.go:151-153  spansNeeded after exportBatch: waitTime-len(buffer) if IsEmpty()
TNeeded(cur, empty, len) == IF empty THEN WaitTime - len ELSE cur

\* mpsc.go:151-153  if IsEmpty() { atomic.StoreInt32(&spansNeeded, waitTime-len(buffer)) }
TTune ==
    /\ tPc = "tune"
    /\ spansNeeded' = TNeeded(spansNeeded, MIsEmpty, Len(tBuf))
    /\ tPc' = "wait"
    /\ UNCHANGED <<notM, mMaxSize, mQueue, mLength, mSignal, mpVars, tBuf, tErr, tLogged, cVars,
                   mExported, mExpDown>>

\* mpsc.go:127-154  ExporterThread
MThread ==
    \/ TSelect
    \/ TCond
    \/ TDeq
    \/ TDecide
    \/ TExported
    \/ TTune

-----------------------------------------------------------------------------
(* Part M: ForceFlush and Shutdown *)

\* mpsc.go:164, 169-171, 181  ForceFlush or Shutdown is called; ForceFlush
\* returns nil at once when IsEmpty()
CBegin ==
    /\ cPc = "idle"
    /\ cCalls < MMaxCalls
    /\ cCalls' = cCalls + 1
    /\ \E op \in {"flush", "shutdown"} :
          /\ cOp' = op
          /\ IF MIsEmpty
             THEN /\ cRes' = "nil"
                  /\ cPc' = IF op = "flush" THEN "idle" ELSE "expShutdown"
                  /\ cDone' = IF op = "flush" THEN cDone + 1 ELSE cDone
             ELSE /\ cRes' = "none"
                  /\ cPc' = "cond"
                  /\ UNCHANGED cDone
    /\ cBuf' = <<>>
    /\ cQuiet' = (cPc' # "idle" /\ \A p \in MProducers : mpPc[p] = "idle")
    /\ UNCHANGED <<notM, mMaxSize, mQueue, mLength, spansNeeded, mSignal, mpVars, tVars,
                   mExported, mExpDown>>

\* mpsc.go:172  for !bsp.queue.IsEmpty() && len(buffer) < int(bsp.spansNeeded)
CCond ==
    /\ cPc = "cond"
    /\ cPc' = IF MLoopCond(cBuf) THEN "deq" ELSE "export"
    /\ UNCHANGED <<notM, mMaxSize, mQueue, mLength, spansNeeded, mSignal, mpVars, tVars,
                   cOp, cCalls, cDone, cBuf, cRes, cQuiet, mExported, mExpDown>>

\* mpsc.go:173-175  if span, ok := bsp.queue.Dequeue(); ok { buffer = append(buffer, span) }
CDeq ==
    /\ cPc = "deq"
    /\ IF MDequeueOk
       THEN /\ cBuf' = Append(cBuf, Head(mQueue))
            /\ mQueue' = Tail(mQueue)
       ELSE UNCHANGED <<cBuf, mQueue>>
    /\ cPc' = "cond"
    /\ UNCHANGED <<notM, mMaxSize, mLength, spansNeeded, mSignal, mpVars, tVars,
                   cOp, cCalls, cDone, cRes, cQuiet, mExported, mExpDown>>

\* mpsc.go:178  return bsp.exporter.ExportSpans(ctx, buffer)
CExport ==
    /\ cPc = "export"
    /\ mExported' = MExportCall("flush", cBuf)
    /\ \E out \in ExportOutcomes : cRes' = out
    /\ cPc' = IF cOp = "flush" THEN "idle" ELSE "expShutdown"
    /\ cDone' = IF cOp = "flush" THEN cDone + 1 ELSE cDone
    /\ cQuiet' = (cOp # "flush" /\ cQuiet)
    /\ UNCHANGED <<notM, mMaxSize, mQueue, mLength, spansNeeded, mSignal, mpVars, tVars,
                   cOp, cCalls, cBuf, mExpDown>>

\* mpsc.go:165  return bsp.exporter.Shutdown(ctx)
CExpShutdown ==
    /\ cPc = "expShutdown"
    /\ mExpDown' = mExpDown + 1
    /\ cDone' = cDone + 1
    /\ cPc' = "idle"
    /\ cQuiet' = FALSE
    /\ UNCHANGED <<notM, mMaxSize, mQueue, mLength, spansNeeded, mSignal, mpVars, tVars,
                   cOp, cCalls, cBuf, cRes, mExported>>

\* mpsc.go:163-182  Shutdown, ForceFlush
MLifecycle ==
    \/ CBegin
    \/ CCond
    \/ CDeq
    \/ CExport
    \/ CExpShutdown

-----------------------------------------------------------------------------
(* Part P: config.OpenTelemetry -- input values *)
(* A configuration is a record of the fields SetDefaults reads or writes;   *)
(* Sampling.Rate, a float64, is counted in hundredths.                      *)

\* number of SetDefaults calls made on one configuration
MaxSetDefaults == 2

\* config.go:209, 243, 247, 251, 238  the default values
DefaultConnectionTimeout == 1
DefaultMaxQueueSize == 2048
DefaultMaxExportBatchSize == 512
DefaultBatchTimeout == 5
DefaultSamplingRate == 50

\* config.go:6-72, 141-170  the loaded configurations: every field unset (its
\* zero value) or set to a value that is no default
SpanProcessorTypes == {"", "simple", "batch", "Simple"}

SpanBatchConfigs ==
    [MaxQueueSize : {0, 8192}, MaxExportBatchSize : {0, 1024}, BatchTimeout : {0, 3}]

Configs ==
    [Enabled : BOOLEAN,
     Exporter : {"", "http"},
     Endpoint : {"", "otel:4318"},
     ConnectionTimeout : {0, 3},
     ResourceName : {"", "gw"},
     SpanProcessorType : SpanProcessorTypes,
     ContextPropagation : {"", "b3"},
     SamplingType : {"", "AlwaysOff", "TraceIDRatioBased"},
     SamplingRate : {0, 25},
     SpanBatchConfig : SpanBatchConfigs]

\* the configuration with every field at its zero value
ZeroConfig ==
    [Enabled |-> FALSE, Exporter |-> "", Endpoint |-> "", ConnectionTimeout |-> 0,
     ResourceName |-> "", SpanProcessorType |-> "", ContextPropagation |-> "",
     SamplingType |-> "", SamplingRate |-> 0,
     SpanBatchConfig |-> [MaxQueueSize |-> 0, MaxExportBatchSize |-> 0, BatchTimeout |-> 0]]

PInit ==
    /\ cfgIn \in Configs
    /\ cfg = cfgIn
    /\ cfgApplied = 0
    /\ cfgOnce = cfgIn
    /\ facCall = [made |-> FALSE]

-----------------------------------------------------------------------------
(* Part P: SetDefaults *)

\* config.go:199-215  ExporterConfig.SetDefaults
ExporterSetDefaults(c) ==
    [c EXCEPT !.Exporter = IF @ = "" THEN "grpc" ELSE @,
              !.Endpoint = IF @ = "" THEN "localhost:4317" ELSE @,
              !.ConnectionTimeout = IF @ = 0 THEN DefaultConnectionTimeout ELSE @,
              !.ResourceName = IF @ = "" THEN "tyk" ELSE @]

\* the batch defaults applied whatever the span processor type
AppliesBatchDefaults_always(type) == TRUE

\* config.go:241  if c.SpanProcessorType == "batch"
AppliesBatchDefaults(type) == type = "batch"

\* config.go:242-252  the zero fields of SpanBatchConfig get their defaults
BatchSetDefaults(b) ==
    [b EXCEPT !.MaxQueueSize = IF @ = 0 THEN DefaultMaxQueueSize ELSE @,
              !.MaxExportBatchSize = IF @ = 0 THEN DefaultMaxExportBatchSize ELSE @,
              !.BatchTimeout = IF @ = 0 THEN DefaultBatchTimeout ELSE @]

\* config.go:218-254  OpenTelemetry.SetDefaults, statement by statement
SetDefaults(c) ==
    IF ~c.Enabled
    THEN c
    ELSE LET c1 == ExporterSetDefaults(c)
             c2 == [c1 EXCEPT !.SpanProcessorType = IF @ = "" THEN "batch" ELSE @]
             c3 == [c2 EXCEPT !.ContextPropagation = IF @ = "" THEN "tracecontext" ELSE @]
             c4 == [c3 EXCEPT !.SamplingType = IF @ = "" THEN "AlwaysOn" ELSE @]
             c5 == IF c4.SamplingType = "TraceIDRatioBased" /\ c4.SamplingRate = 0
                   THEN [c4 EXCEPT !.SamplingRate = DefaultSamplingRate]
                   ELSE c4
         IN  IF AppliesBatchDefaults(c5.SpanProcessorType)
             THEN [c5 EXCEPT !.SpanBatchConfig = BatchSetDefaults(@)]
             ELSE c5

\* a caller applies SetDefaults to the configuration
PSetDefaults ==
    /\ cfgApplied < MaxSetDefaults
    /\ cfg' = SetDefaults(cfg)
    /\ cfgOnce' = IF cfgApplied = 0 THEN SetDefaults(cfg) ELSE cfgOnce
    /\ cfgApplied' = cfgApplied + 1
    /\ UNCHANGED <<notP, cfgIn, facCall>>

-----------------------------------------------------------------------------
(* Part P: spanProcessorFactory *)
(* A span processor is described by its kind and by the options it was      *)
(* built with.                                                              *)

\* span_processor.go:21-23  newSimpleSpanProcessor
NewSimpleSpanProcessor == [kind |-> "simple", opts |-> {}]

\* span_processor.go:25-41  newBatchSpanProcessor: an option for every positive field
NewBatchSpanProcessor(b) ==
    [kind |-> "batch",
     opts |-> (IF b.MaxQueueSize > 0 THEN {<<"MaxQueueSize", b.MaxQueueSize>>} ELSE {})
              \cup (IF b.MaxExportBatchSize > 0
                    THEN {<<"MaxExportBatchSize", b.MaxExportBatchSize>>} ELSE {})
              \cup (IF b.BatchTimeout > 0 THEN {<<"BatchTimeout", b.BatchTimeout>>} ELSE {})]

\* every type but "batch" taken for the simple processor
SpanProcessorFactory_batchOnly(type, b) ==
    IF type = "batch" THEN NewBatchSpanProcessor(b) ELSE NewSimpleSpanProcessor

\* span_processor.go:11-19  spanProcessorFactory
SpanProcessorFactory(type, b) ==
    IF type = "simple" THEN NewSimpleSpanProcessor ELSE NewBatchSpanProcessor(b)

\* a provider is built from the configuration as it stands
PFactory ==
    /\ ~facCall.made
    /\ facCall' = [made |-> TRUE,
                   type |-> cfg.SpanProcessorType,
                   batch |-> cfg.SpanBatchConfig,
                   proc |-> SpanProcessorFactory(cfg.SpanProcessorType, cfg.SpanBatchConfig)]
    /\ UNCHANGED <<notP, cfgIn, cfg, cfgApplied, cfgOnce>>

-----------------------------------------------------------------------------
(* Specifications *)

InitAny ==
    /\ QInit
    /\ BInit
    /\ AInit
    /\ MInit
    /\ PInit

\* a part's specification fixes the constructor arguments of the other parts
Init ==
    /\ InitAny
    /\ aPool = 1
    /\ mMaxSize = 1
    /\ cfgIn = ZeroConfig

InitAH ==
    /\ InitAny
    /\ mMaxSize = 1
    /\ cfgIn = ZeroConfig

\* Part P: every loaded configuration
InitCfg ==
    /\ InitAny
    /\ aPool = 1
    /\ mMaxSize = 1

InitMP ==
    /\ InitAny
    /\ aPool = 1
    /\ cfgIn = ZeroConfig

\* Part Q: producers calling Enqueue concurrently with one consumer calling
\* Dequeue over and over
Next ==
    \/ \E p \in Producers : Enqueue(p)
    \/ Dequeue

Spec == Init /\ [][Next]_vars

\* Part B: producers calling OnEnd, the worker, one goroutine calling
\* Shutdown and one calling ForceFlush
BspNext ==
    \/ \E p \in BProducers : BOnEnd(p)
    \/ BWorker
    \/ BShutdown
    \/ BForceFlush

SpecBSP == Init /\ [][BspNext]_vars
\* Part A: producers calling OnEnd, the recordWorker pool, one goroutine
\* calling Shutdown and ForceFlush
AhNext ==
    \/ \E p \in AProducers : AOnEnd(p)
    \/ \E w \in WorkerIds : AWorker(w)
    \/ ALifecycle

SpecAH == InitAH /\ [][AhNext]_vars

\* every recordWorker goroutine keeps being scheduled and its flush timer
\* (tyk_processor.go:109) fires when nothing arrives
SpecAHFair == SpecAH /\ \A w \in WorkerIds : WF_vars(AWorker(w))

\* Part M: producers calling OnEnd, the exporter thread, one goroutine
\* calling ForceFlush and Shutdown
MpNext ==
    \/ \E p \in MProducers : MOnEnd(p)
    \/ MThread
    \/ MLifecycle

SpecMP == InitMP /\ [][MpNext]_vars

\* Part P: SetDefaults calls on a loaded configuration and one
\* spanProcessorFactory call, in any order
CfgNext ==
    \/ PSetDefaults
    \/ PFactory

SpecCfg == InitCfg /\ [][CfgNext]_vars

-----------------------------------------------------------------------------
(* Part Q: claims *)

\* spans whose Enqueue call has begun
Started == UNION {{SpanOf(p, k) : k \in 1..(eCnt[p] + IF ePc[p] = "idle" THEN 0 ELSE 1)}
                  : p \in Producers}

\* C1: with any number of producers and one consumer, Dequeue returns only
\* spans that were enqueued, never the dummy node's nil payload, never the
\* same span twice, and a Dequeue that reports the queue empty has left no
\* span behind whose Enqueue had returned before that Dequeue began; so once
\* the producers are done and the consumer has drained the queue, every span
\* has been returned exactly once.
C1_NoLossNoDup ==
    /\ \A i, j \in DOMAIN dequeued : i # j => dequeued[i] # dequeued[j]
    /\ Range(dequeued) \subseteq Started
    /\ NilSpan \notin Range(dequeued)
    /\ dPc # "panic"
    /\ (dPc = "idle" /\ dRes = "empty") => dSeen \subseteq Range(dequeued)

\* all producers are done, the consumer has drained the queue, and the spans
\* of the two producers came out interleaved
C1_Drained ==
    /\ dPc = "idle" /\ dRes = "empty"
    /\ dSeen = Spans
    /\ Len(dequeued) = Cardinality(Spans)
    /\ ProducerOf(dequeued[1]) # ProducerOf(dequeued[2])

\* C2: the spans come out in the order in which their nodes were linked by
\* the successful CAS on tail.next, and two spans of one producer come out in
\* the order that producer enqueued them.
C2_Fifo ==
    /\ Len(dequeued) <= Len(linked)
    /\ \A i \in DOMAIN dequeued : dequeued[i] = linked[i]
    /\ \A i, j \in DOMAIN dequeued :
          (i < j /\ ProducerOf(dequeued[i]) = ProducerOf(dequeued[j]))
             => dequeued[i] < dequeued[j]

\* two spans of one producer were dequeued around a span of the other producer
\* that was linked between them
C2_Interleaved ==
    \E i, j, k \in DOMAIN dequeued :
        /\ i < j /\ j < k
        /\ ProducerOf(dequeued[i]) = ProducerOf(dequeued[k])
        /\ ProducerOf(dequeued[i]) # ProducerOf(dequeued[j])
        /\ dequeued[i] < dequeued[k]

-----------------------------------------------------------------------------
(* Part B: claims *)

\* spans whose OnEnd call has returned
BEnded == UNION {{BSpanOf(p, k) : k \in 1..oCnt[p]} : p \in BProducers}

\* C3: OnEnd of trace.BatchSpanProcessor never panics and always succeeds:
\* enqueue(s) returns normally, it writes to no word other than a node's
\* next field, and once it has returned s is linked into the queue (or was
\* already taken out of it by a dequeue).
C3_EnqueueSucceeds ==
    /\ bPanicked = {}
    /\ \A p \in BProducers : oPc[p] # "corrupt"
    /\ BEnded \subseteq BQueued \cup Range(wBatch) \cup Range(fBatch) \cup BExportedSpans

\* C8: when the worker of trace.BatchSpanProcessor exits on the shutdown
\* signal it has read the queue once more after the signal, and when Shutdown
\* has returned the spans that were in the worker's partial batch or in the
\* queue when Shutdown was called have been passed to ExportSpans.
C8_FinalDrain ==
    /\ wPc = "exited" => wLook
    /\ sCalls >= 1 => sSnap \subseteq BExportedSpans

\* C10: for each of the three processors a second Shutdown after the first
\* has returned does not panic, returns at once and makes no ExportSpans
\* call: closing shutdownCh or recordsChan again does not panic, and the
\* second Shutdown of MPSCSpanProcessor does not enter the dequeue loop of
\* ForceFlush.
C10_SecondShutdownSafe ==
    /\ sPc # "panicked"
    /\ lPc # "panicked"
    /\ (mExpDown >= 1 /\ cOp = "shutdown" /\ cPc # "idle") => cPc = "expShutdown"

\* the worker, or the ForceFlush caller, is inside spanQueue.dequeue
WInDequeue == wPc \in {"deqLoad", "deqNext", "deqCas"}
FInDequeue == fPc \in {"deqLoad", "deqNext", "deqCas"}

\* C17: at most one goroutine executes dequeue on a processor's queue at a
\* time: the ForceFlush caller of trace.BatchSpanProcessor is never inside
\* dequeue while the worker is, and the ForceFlush or Shutdown caller of
\* MPSCSpanProcessor is never at its Dequeue call while the exporter thread
\* is at its own.
C17_SingleConsumer ==
    /\ ~(WInDequeue /\ FInDequeue)
    /\ ~(tPc = "deq" /\ cPc = "deq")

-----------------------------------------------------------------------------
(* Part A: claims *)

\* C4: an OnEnd of AnalyticsHandler that runs concurrently with Shutdown or
\* ForceFlush never panics: RecordHit never sends on recordsChan after it
\* was closed.
C4_NoSendOnClosed == aPanicked = {}

\* C5: OnEnd of AnalyticsHandler never blocks: a producer that has reached
\* the send on recordsChan can complete it without a worker receiving first.
C5_OnEndNeverBlocks ==
    \A p \in AProducers : rPc[p] = "send" => (aClosed \/ Len(aChan) < RecordsBufferSize)

\* C7: when Shutdown of AnalyticsHandler has returned, all poolSize workers
\* have exited and every span that RecordHit sent into recordsChan has been
\* passed to ExportSpans exactly once.
C7_FinalDrain ==
    (lPc = "idle" /\ lOp = "shutdown") =>
        /\ \A w \in AWorkers : awPc[w] = "exited"
        /\ \A s \in aSent : aExported[s] = 1

\* Shutdown has returned after a worker exported a buffer that was not yet
\* full when it saw the channel closed
C7_DrainedOnClose ==
    /\ lPc = "idle" /\ lOp = "shutdown"
    /\ Cardinality(aSent) >= 2
    /\ \E w \in AWorkers : awPc[w] = "exited" /\ awBuf[w] # <<>>

\* C14: every batch a worker of AnalyticsHandler passes to ExportSpans (its
\* buffer while it is inside an ExportSpans call) holds at most
\* workerBufferSize spans, and a buffer that has reached workerBufferSize is
\* being exported, after which it is reset to empty.
C14_BoundedBatch ==
    \A w \in AWorkers :
        /\ Len(awBuf[w]) <= WorkerBufferSize
        /\ Len(awBuf[w]) = WorkerBufferSize => awPc[w] = "export"

\* a worker is exporting a batch of workerBufferSize spans, more than one,
\* that the size test made it send
C14_FullBatchExport ==
    \E w \in AWorkers :
        /\ awPc[w] = "export"
        /\ Len(awBuf[w]) = WorkerBufferSize
        /\ WorkerBufferSize >= 2

\* C16: while AnalyticsHandler is running (no Shutdown or ForceFlush called),
\* as long as a single span has been sent the workers have made at most one
\* ExportSpans call, and that call carried this span and nothing else; and
\* every span sent into recordsChan is eventually passed to ExportSpans
\* exactly once, whether or not any further OnEnd follows.
C16_TimeTrigger ==
    /\ [](\A s \in ASpans :
            (lCalls = 0 /\ aSent = {s})
               => /\ aCalls = aExported[s]
                  /\ aCalls <= 1
                  /\ \A o \in ASpans \ {s} : aExported[o] = 0)
    /\ \A s \in ASpans : (s \in aSent) ~> (aExported[s] = 1 \/ lCalls > 0)

\* one span was sent, no second one, and a worker whose buffer holds two
\* spans before it is full has exported it in one call
C16_SingleSpanExported ==
    /\ lCalls = 0
    /\ WorkerBufferSize >= 2
    /\ \E s \in ASpans : aSent = {s} /\ aExported[s] = 1
    /\ aCalls = 1
    /\ \A p \in AProducers : rPc[p] = "idle"

\* C18: ForceFlush of AnalyticsHandler does not alter the lifecycle state:
\* when ForceFlush is the only lifecycle call made, then while it runs and
\* after it has returned shouldStop is 0, recordsChan is open, no worker has
\* left its loop, and no span passed to OnEnd was dropped.
C18_FlushKeepsRunning ==
    (lCalls = 1 /\ lOp = "flush") =>
        /\ shouldStop = 0
        /\ ~aClosed
        /\ \A w \in AWorkers : awPc[w] \notin {"finalExport", "exited"}
        /\ aDropped = {}

-----------------------------------------------------------------------------
(* Part M: claims *)

\* spans whose OnEnd call has returned
MEnded == UNION {{MSpanOf(p, k) : k \in 1..mpCnt[p]} : p \in MProducers}

\* C6: MPSCSpanProcessor loses no span: no span is passed to ExportSpans
\* twice, and without any ForceFlush or Shutdown, once no OnEnd is in
\* progress and the exporter thread has gone back to waiting with no signal
\* pending (so that nothing happens until the next OnEnd), every span whose
\* OnEnd returned has been passed to ExportSpans.
C6_NoSpanLost ==
    /\ \A s \in MSpans : MExportCount(s) <= 1
    /\ (/\ cCalls = 0
        /\ \A p \in MProducers : mpPc[p] = "idle"
        /\ tPc = "wait"
        /\ mSignal = 0) => MEnded \subseteq MExportedSpans

\* C9: when Shutdown of MPSCSpanProcessor has returned, ExporterThread has
\* exited, and the thread makes no ExportSpans call after exporter.Shutdown
\* was invoked.
C9_ShutdownStopsWorker ==
    /\ mExpDown >= 1 => tPc = "exited"
    /\ \A i \in DOMAIN mExported : mExported[i].by = "thread" => ~mExported[i].down

\* C11: when ForceFlush of MPSCSpanProcessor returns nil, having been called
\* with no OnEnd in progress and with no OnEnd begun while it ran, every
\* span whose OnEnd has returned has been passed to ExportSpans, whether it
\* was still in the queue or already in the exporter thread's buffer.
C11_FlushExportsAll ==
    [][(/\ cOp' = "flush" /\ cDone' = cDone + 1 /\ cRes' = "nil"
        /\ IF cPc = "idle" THEN \A p \in MProducers : mpPc[p] = "idle" ELSE cQuiet)
          => MEnded \subseteq UNION {Range(mExported'[i].batch) : i \in DOMAIN mExported'}]_vars

\* C12: ForceFlush of MPSCSpanProcessor terminates when no further OnEnd
\* occurs: while it is in its dequeue loop with no OnEnd in progress, the
\* spans it holds and the spans in the queue are enough to end the loop.
C12_FlushTerminates ==
    (/\ cPc \in {"cond", "deq"}
     /\ \A p \in MProducers : mpPc[p] = "idle")
        => (MIsEmpty \/ Len(cBuf) + Len(mQueue) >= spansNeeded)

\* no OnEnd is in progress and the exporter thread can do nothing more until
\* the next OnEnd: it waits with no signal pending, or it goes round its
\* dequeue loop on an empty queue
MSettled ==
    /\ \A p \in MProducers : mpPc[p] = "idle"
    /\ \/ tPc = "wait" /\ mSignal = 0
       \/ tPc \in {"cond", "deq"} /\ mQueue = <<>> /\ Len(tBuf) < spansNeeded

\* C15: with no ForceFlush or Shutdown, every ExportSpans call is made by
\* the exporter thread with exactly maxSize spans and no span is exported
\* twice; and once the producers have made exactly k * maxSize OnEnd calls
\* (k at most the capacity of exportSignal) and the thread has settled, it
\* has made exactly k ExportSpans calls, which hold every span.
C15_SizeTrigger ==
    cCalls = 0 =>
        /\ \A i \in DOMAIN mExported :
              mExported[i].by = "thread" /\ Len(mExported[i].batch) = mMaxSize
        /\ \A s \in MSpans : MExportCount(s) <= 1
        /\ \A k \in 1..ExportSignalCap :
              (MSettled /\ Cardinality(MEnded) = k * mMaxSize)
                 => (Len(mExported) = k /\ MEnded \subseteq MExportedSpans)

\* two producers have ended four spans between them, maxSize is 2, and the
\* settled thread has made two ExportSpans calls, the first with spans of
\* both producers
C15_TwoBatches ==
    /\ cCalls = 0
    /\ MSettled
    /\ mMaxSize = 2
    /\ Cardinality(MEnded) = 4
    /\ Len(mExported) = 2
    /\ \E i, j \in DOMAIN mExported[1].batch :
          mExported[1].batch[i] \in {MSpanOf(1, k) : k \in 1..MMaxEnd}
          /\ mExported[1].batch[j] \notin {MSpanOf(1, k) : k \in 1..MMaxEnd}

C20_NoExportErrorToCaller ==
    ~(cOp = "flush" /\ cPc = "idle" /\ cDone > 0 /\ cRes = "error")

\* C21: Shutdown of the AnalyticsHandler is bounded by its caller's deadline.
\* The deadline can expire in any state, so whenever Shutdown waits in
\* poolWg.Wait while a worker is inside an ExportSpans call that has not
\* returned, Shutdown has a step that returns without that worker.
C21_ShutdownBoundedByDeadline ==
    (/\ lOp = "shutdown"
     /\ lPc = "wait"
     /\ \E w \in AWorkers : awPc[w] \in {"export", "finalExport"})
        => ENABLED LWait

\* C22: with an exporter whose calls always return, concurrent OnEnd callers,
\* the workers and one Shutdown call of the AnalyticsHandler never get stuck:
\* no OnEnd call ends in a panic instead of completing, the mutex is only
\* ever held by a goroutine that is on its way to unlock it, and as long as
\* an OnEnd or the Shutdown call is in progress some goroutine can take a
\* step without a further Shutdown or ForceFlush being called.
C22_NoDeadlock ==
    (lCalls <= 1 /\ lOp # "flush") =>
        /\ aPanicked = {}
        /\ mu # 0 => \/ mu = Lifecycle /\ lPc \in {"close", "unlock"}
                     \/ mu \in AProducers /\ rPc[mu] \in {"send", "unlock"}
        /\ ((\E p \in AProducers : rPc[p] # "idle") \/ lPc # "idle")
              => ENABLED (AhNext /\ lCalls' = lCalls)

\* the producer that issued a span of the AnalyticsHandler
AProducerOf(s) == ((s - 1) \div AMaxEnd) + 1

\* C23: in every batch a recordWorker of the AnalyticsHandler hands to
\* ExportSpans, two spans of the same producer stand in the order in which
\* the producer issued them.
C23_FifoWithinBatch ==
    \A w \in AWorkers :
        awPc[w] \in {"export", "finalExport"} =>
            \A i, j \in DOMAIN awBuf[w] :
                (i < j /\ AProducerOf(awBuf[w][i]) = AProducerOf(awBuf[w][j]))
                    => awBuf[w][i] < awBuf[w][j]

\* a worker is inside ExportSpans with a batch that holds both spans of one
\* producer
C23_SameProducerBatch ==
    \E w \in AWorkers :
        /\ awPc[w] = "export"
        /\ \E i, j \in DOMAIN awBuf[w] :
              i < j /\ AProducerOf(awBuf[w][i]) = AProducerOf(awBuf[w][j])

\* C24: MPSCQueue with one consumer is linearizable as a FIFO queue, every
\* Enqueue taking effect at its successful CAS on tail.next (the order kept
\* in linked) and every Dequeue at its successful CAS on head or, when it
\* returns empty, at its read of a nil successor: the values returned by the
\* successful Dequeue calls are, in order, a prefix of linked; a Dequeue
\* returns empty only after it read a nil successor; Dequeue never
\* dereferences a nil successor; and at every read of a nil successor all
\* linked spans have already been returned.
C24_Linearizable ==
    /\ [](/\ Len(dequeued) <= Len(linked)
          /\ \A i \in DOMAIN dequeued : dequeued[i] = linked[i]
          /\ dRes = "empty" => dNext = Nil
          /\ dPc # "panic")
    /\ [][(dPc = "loadNext" /\ dPc' = "check" /\ dNext' = Nil)
             => Len(linked) = Len(dequeued)]_vars

\* a Dequeue has returned the span of an Enqueue call that has linked its
\* node but has not returned yet, after the span of the other producer
C24_DequeuedBeforeEnqueueReturned ==
    /\ dRes = "ok"
    /\ Len(dequeued) >= 2
    /\ \E p \in Producers :
          /\ ePc[p] = "swing"
          /\ dequeued[Len(dequeued)] = NodeValue(NewNode(p))
          /\ ProducerOf(dequeued[Len(dequeued) - 1]) # p

\* C25: OnEnd of MPSCSpanProcessor never waits for the exporter thread: a
\* producer inside OnEnd can always take its next step, whatever the thread
\* and the callers of ForceFlush and Shutdown are doing; exportSignal never
\* holds more than its capacity; and the step that finds exportSignal full
\* leaves it as it is and returns.
C25_OnEndNeverWaits ==
    /\ [](/\ \A p \in MProducers : mpPc[p] # "idle" => ENABLED MOnEnd(p)
          /\ mSignal <= ExportSignalCap)
    /\ [][\A p \in MProducers :
             (mpPc[p] = "signal" /\ mpPc'[p] # "signal" /\ mSignal = ExportSignalCap)
                => (mSignal' = mSignal /\ mpPc'[p] = "idle" /\ mpCnt'[p] = mpCnt[p] + 1)]_vars

\* with maxSize 1 four OnEnd calls have returned while the exporter thread
\* has not yet taken a signal: exportSignal is full, so two of the calls
\* skipped their send
C25_SendSkipped ==
    /\ mMaxSize = 1
    /\ cCalls = 0
    /\ \A p \in MProducers : mpPc[p] = "idle" /\ mpCnt[p] = MMaxEnd
    /\ tPc = "wait"
    /\ mExported = <<>>
    /\ mSignal = ExportSignalCap

-----------------------------------------------------------------------------
(* Part P: claims *)

\* C26: spanProcessorFactory returns the simple span processor exactly when
\* the type is "simple", and then nothing of the batch configuration
\* reaches the processor; for every other type, the empty string and
\* unknown names included, it returns the batch span processor, built with
\* the positive fields of the batch configuration.
C26_FactorySelects ==
    facCall.made =>
        /\ facCall.proc.kind = "simple" <=> facCall.type = "simple"
        /\ facCall.type = "simple" => facCall.proc = NewSimpleSpanProcessor
        /\ facCall.type # "simple" => facCall.proc = NewBatchSpanProcessor(facCall.batch)
        /\ facCall.proc.kind \in {"simple", "batch"}

\* the factory was called with type "simple" and a batch configuration whose
\* three fields are set, and returned a processor without options
C26_SimpleIgnoresBatchConfig ==
    /\ facCall.made
    /\ facCall.type = "simple"
    /\ facCall.batch = [MaxQueueSize |-> 8192, MaxExportBatchSize |-> 1024, BatchTimeout |-> 3]
    /\ facCall.proc.opts = {}

\* the fields of a configuration outside SpanBatchConfig, and those inside
CfgFields ==
    {"Enabled", "Exporter", "Endpoint", "ConnectionTimeout", "ResourceName",
     "SpanProcessorType", "ContextPropagation", "SamplingType", "SamplingRate"}
BatchFields == {"MaxQueueSize", "MaxExportBatchSize", "BatchTimeout"}

-----------------------------------------------------------------------------
(* Part Q: the shape of the list *)

\* the nodes met from node n on by following next at most k times
RECURSIVE QPath(_, _)
QPath(n, k) == IF n = Nil \/ k = 0 THEN <<>> ELSE <<n>> \o QPath(qNext[n], k - 1)

\* the chain of next pointers that starts at head; it is longer than the
\* number of nodes only if it runs into a cycle
QChain == QPath(qHead, Cardinality(Nodes) + 1)

\* C28: in every state of MPSCQueue the chain of next pointers from head
\* ends in nil after at most all nodes; tail is the last node of the chain
\* or the one before the last; head is the dummy node as long as nothing
\* was dequeued and afterwards the node whose value was returned last; and
\* the nodes behind head are the linked spans not yet dequeued, in order.
C28_ListShape ==
    /\ Len(QChain) <= Cardinality(Nodes)
    /\ \/ QChain[Len(QChain)] = qTail
       \/ Len(QChain) >= 2 /\ QChain[Len(QChain) - 1] = qTail
    /\ qHead = IF dequeued = <<>> THEN Dummy ELSE dequeued[Len(dequeued)]
    /\ Tail(QChain) = SubSeq(linked, Len(dequeued) + 1, Len(linked))

\* spans have been dequeued, head and tail are the same consumed node, and
\* a producer has linked a node behind it without having moved tail yet
C28_TailLagsAtHead ==
    /\ dequeued # <<>>
    /\ qHead = qTail
    /\ qNext[qTail] # Nil
    /\ \E p \in Producers : ePc[p] = "swing"

\* C29: MPSCQueue does not wait for a producer that stops between its CAS
\* on tail.next and its CAS on tail.  Whatever the other goroutines do,
\* that producer never stepping again included, an Enqueue call whose
\* goroutine keeps taking steps returns, and so does a Dequeue call.
C29_HelpAlong ==
    /\ \A p \in Producers :
          WF_vars(Enqueue(p)) => ((ePc[p] # "idle") ~> (ePc[p] = "idle"))
    /\ WF_vars(Dequeue) => ((dPc # "idle") ~> (dPc = "idle"))

\* a producer is still between its two CASes and the other producer has
\* since completed an Enqueue whose node is linked behind the pending one
C29_EnqueuedPastPending ==
    \E p, q \in Producers :
        /\ p # q
        /\ ePc[p] = "swing"
        /\ qTail # NewNode(p)
        /\ eCnt[q] >= 1
        /\ \E i, j \in DOMAIN linked :
              i < j /\ linked[i] = NodeValue(NewNode(p)) /\ linked[j] = SpanOf(q, eCnt[q])

\* C30: whenever no Enqueue and no Dequeue call is in progress, Length()
\* of MPSCQueue is the number of spans enqueued and not yet dequeued, and
\* IsEmpty() is true exactly when a Dequeue call would find no node behind
\* head and return (nil, false).
C30_LengthIsActual ==
    (dPc = "idle" /\ \A p \in Producers : ePc[p] = "idle") =>
        /\ qLength = Len(linked) - Len(dequeued)
        /\ (qLength = 0) <=> (qNext[qHead] = Nil)

-----------------------------------------------------------------------------
(* Claims about both workers' timers *)

\* C31: a timer tick that finds the worker's buffer empty is a no-op.  A
\* flush-timer step of a recordWorker with an empty recordsBuffer makes no
\* ExportSpans call and leaves the buffer, the worker's position and
\* recordsChan as they are; a ticker step of processQueue with an empty
\* batch makes no ExportSpans call and leaves the batch and the queue as
\* they are.
C31_EmptyTickNoOp ==
    /\ [][\A w \in WorkerIds :
             (AWTimer(w) /\ awBuf[w] = <<>>)
                => UNCHANGED <<aExported, aCalls, awBuf, awPc, aChan>>]_vars
    /\ [][(WTick /\ wBatch = <<>>)
             => UNCHANGED <<bExported, wBatch, wPc, bQueueVars>>]_vars

\* a recordWorker has exported a batch and waits in its select with an
\* empty buffer, so its flush timer can fire, while a record is waiting in
\* recordsChan
C31_TickOnEmptyBuffer ==
    \E w \in AWorkers :
        /\ awPc[w] = "select"
        /\ awBuf[w] = <<>>
        /\ ENABLED AWTimer(w)
        /\ aCalls > 0
        /\ aChan # <<>>

-----------------------------------------------------------------------------
(* Part A: more claims *)

\* Shutdown of the AnalyticsHandler has returned and ForceFlush was not
\* called since: the calling goroutine is back from Shutdown, or it is in a
\* further Shutdown call, which finds recordsChan closed
AHasShutDown ==
    /\ lOp = "shutdown"
    /\ \/ lPc = "idle"
       \/ lCalls >= 2 /\ aClosed /\ lPc \in {"lock", "close", "panicked"}

\* C32: once Shutdown of the AnalyticsHandler has returned and as long as
\* ForceFlush is not called, shouldStop is set, recordsChan is closed and
\* no worker is left; an OnEnd call that starts returns at once, its span
\* dropped and nothing sent; and no step makes an ExportSpans call or puts
\* a span into the channel.
C32_NoWorkAfterShutdown ==
    /\ [](AHasShutDown =>
             /\ shouldStop = 1
             /\ aClosed
             /\ \A w \in AWorkers : awPc[w] = "exited")
    /\ [][AHasShutDown =>
             /\ aCalls' = aCalls
             /\ aExported' = aExported
             /\ aSent' = aSent
             /\ aChan' = aChan
             /\ \A p \in AProducers :
                   RCheck(p) => /\ rPc'[p] = "idle"
                                /\ rCnt'[p] = rCnt[p] + 1
                                /\ ASpan(p) \in aDropped'
                                /\ aPanicked' = aPanicked]_vars

\* Shutdown has returned after spans were sent and exported, a span was
\* dropped, and a producer that has made no OnEnd call yet can start one
C32_OnEndAfterShutdown ==
    /\ AHasShutDown
    /\ lPc = "idle"
    /\ aSent # {}
    /\ aDropped # {}
    /\ \E p \in AProducers : rPc[p] = "idle" /\ rCnt[p] = 0

\* ForceFlush of the AnalyticsHandler has returned and no other Shutdown or
\* ForceFlush call has begun
AHasFlushed == lOp = "flush" /\ lPc = "idle"

\* the spans that sit in recordsChan or in a worker's recordsBuffer
AHeld ==
    Range(aChan) \cup UNION {Range(awBuf[w]) : w \in AWorkers}

\* C33: when ForceFlush of the AnalyticsHandler has returned, shouldStop is
\* 0, recordsChan is open, poolSize workers are running and counted in
\* poolWg, and every span that was sent and has not been passed to
\* ExportSpans sits in the new channel or in a new worker's buffer, where
\* only an OnEnd call that ran during or after the ForceFlush call can have
\* put it; with no such OnEnd call every span sent has been passed to
\* ExportSpans.
C33_ForceFlushRestarts ==
    AHasFlushed =>
        /\ shouldStop = 0
        /\ ~aClosed
        /\ poolWg = aPool
        /\ \A w \in AWorkers : awPc[w] # "exited"
        /\ \A s \in aSent : aExported[s] >= 1 \/ s \in AHeld
        /\ (AHeld = {} => \A s \in aSent : aExported[s] >= 1)

\* ForceFlush has returned on a handler with two workers, with spans sent
\* before and all of them exported, and no OnEnd call under way
C33_FlushedWithSpans ==
    /\ AHasFlushed
    /\ aPool = 2
    /\ aSent # {}
    /\ AHeld = {}
    /\ \A p \in AProducers : rPc[p] = "idle"
    /\ \A w \in AWorkers : awPc[w] = "select"

-----------------------------------------------------------------------------
(* Part M: more claims *)

-----------------------------------------------------------------------------
(* Part B: more claims *)

\* C35: Shutdown of the BatchSpanProcessor calls exporter.Shutdown only
\* when the worker has exited (wg is 0); from the call of exporter.Shutdown
\* on no step adds an ExportSpans call of the worker; and when Shutdown has
\* returned, its result is the value exporter.Shutdown returned.
C35_ShutdownOrder ==
    /\ []((sPc = "expShutdown" \/ bExpDown >= 1) => (wPc = "exited" /\ wg = 0))
    /\ [][bExpDown >= 1 =>
             \A i \in DOMAIN bExported' :
                 i > Len(bExported) => bExported'[i].by # "worker"]_vars
    /\ [](bExpDown >= 1 => (sRes = sDownErr /\ sRes \in ExportOutcomes))
    /\ [][SExpShutdown => (sRes' = sDownErr' /\ wPc = "exited")]_vars

\* Shutdown has returned the error of exporter.Shutdown, called once, after
\* the worker left processQueue
C35_ShutdownReturnedError ==
    /\ sPc = "idle"
    /\ sCalls = 1
    /\ bExpDown = 1
    /\ sDownErr = "error"
    /\ sRes = "error"
    /\ wPc = "exited"

-----------------------------------------------------------------------------
(* A claim about the batches of all the processors *)

\* C36: no ExportSpans call carries an empty batch; for the AnalyticsHandler:
\* a worker inside ExportSpans, in its loop or on the closed channel, has
\* passed a recordsBuffer of at least one span.
C36_NoEmptyBatch ==
    \A w \in AWorkers :
        awPc[w] \in {"export", "finalExport"} => awBuf[w] # <<>>

====
